---- MODULE Spec2Model ----
(***************************************************************************)
(* Model of package sln (sln.go): the solution-document parser, the        *)
(* configuration-mapping table and its queries, and the compile-command    *)
(* generator.                                                              *)
(*                                                                         *)
(* Strings are sequences of pieces.  A piece is an indivisible run of      *)
(* characters; every separator, marker or suffix the code searches for     *)
(* (";", "\", "/", ".vcxproj", "Build.0", white space, "$(SolutionDir)")   *)
(* is a piece of its own, so that Split, Replace, HasSuffix, Contains     *)
(* and TrimSpace are computed on pieces as the library computes them on    *)
(* characters.  The solution document is a sequence of lines, each line    *)
(* one of: a project-reference line, the configuration-section start       *)
(* marker, a section end marker, a mapping row, or other text.             *)
(***************************************************************************)
EXTENDS Integers, Sequences, FiniteSets, TLC

VARIABLES
    content,        \* the text of the solution document (parseSolutionFile)
    pc,             \* position of NewSln / the constructed model's life
    err,            \* the error NewSln returns ("nil" when none)
    ProjectGUIDs,   \* Sln.ProjectGUIDs: normalized path -> GUID
    ConfigMappings, \* Sln.ConfigMappings
    matches,        \* parseConfigurationMappings: the regexp's matches
    mi,             \* parseConfigurationMappings: index of the next match
    ProjectList,    \* Sln.ProjectList
    failing,        \* project collaborator: configurations FindConfig rejects
    ret             \* the last call on the constructed model and its result

vars == <<content, pc, err, ProjectGUIDs, ConfigMappings, matches, mi,
          ProjectList, failing, ret>>

(***************************************************************************)
(* Bounds of the model.                                                    *)
(***************************************************************************)
MaxLines == 3   \* lines of a free-form document
MaxRows == 3    \* mapping rows of a document with one section
MaxRefs == 2    \* project references of a document handed to generation

(***************************************************************************)
(* Pieces and library functions.                                           *)
(***************************************************************************)
SP == " "        \* white space for both regexp \s and strings.TrimSpace
VT == "<VT>"     \* vertical tab: white space for TrimSpace, not for \s
BS == "\\"
FS == "/"
SEMI == ";"
Ext == ".vcxproj"
BuildMark == "Build.0"
ActiveMark == "ActiveCfg"
SolutionDirVar == "$(SolutionDir)"

Range(s) == {s[i] : i \in 1..Len(s)}

SeqsUpTo(S, n) == UNION {[1..k -> S] : k \in 0..n}

\* strings.HasSuffix(s, suffix), suffix a single piece
HasSuffix(s, suffix) == Len(s) > 0 /\ s[Len(s)] = suffix

\* strings.Replace(s, old, new, -1), old and new single pieces
Replace(s, old, new) == [i \in 1..Len(s) |-> IF s[i] = old THEN new ELSE s[i]]

\* strings.Contains(s, piece)
Contains(s, piece) == piece \in Range(s)

IsSpace(p) == p \in {SP, VT}

RECURSIVE TrimLeft(_)
TrimLeft(s) == IF s # <<>> /\ IsSpace(Head(s)) THEN TrimLeft(Tail(s)) ELSE s

RECURSIVE TrimRight(_)
TrimRight(s) ==
    IF s # <<>> /\ IsSpace(s[Len(s)]) THEN TrimRight(SubSeq(s, 1, Len(s) - 1)) ELSE s

\* strings.TrimSpace
TrimSpace(s) == TrimRight(TrimLeft(s))

\* the regexp's \s* : leading white space of the regexp's kind is skipped
RECURSIVE SkipRegexpSpace(_)
SkipRegexpSpace(s) == IF s # <<>> /\ Head(s) = SP THEN SkipRegexpSpace(Tail(s)) ELSE s

\* a Go map: a function; the empty map has the empty domain
EmptyMap == << >>
MapPut(m, k, v) == [x \in (DOMAIN m) \cup {k} |-> IF x = k THEN v ELSE m[x]]

(***************************************************************************)
(* Lines of a solution document.                                           *)
(***************************************************************************)
NoStr == << >>
ProjectLine(path, guid) ==
    [kind |-> "Project", path |-> path, guid |-> guid, cfg |-> NoStr, suffix |-> "", rhs |-> NoStr]
RowLine(guid, cfg, suffix, rhs) ==
    [kind |-> "Row", path |-> NoStr, guid |-> guid, cfg |-> cfg, suffix |-> suffix, rhs |-> rhs]
StartLine ==
    [kind |-> "Start", path |-> NoStr, guid |-> "", cfg |-> NoStr, suffix |-> "", rhs |-> NoStr]
EndLine ==
    [kind |-> "End", path |-> NoStr, guid |-> "", cfg |-> NoStr, suffix |-> "", rhs |-> NoStr]
TextLine ==
    [kind |-> "Text", path |-> NoStr, guid |-> "", cfg |-> NoStr, suffix |-> "", rhs |-> NoStr]

(***************************************************************************)
(* parseProjectReferences, lines 90-108.                                   *)
(***************************************************************************)
\* line 92-93: the matches of the project-reference regexp, in document order
ProjectMatches(text) == SelectSeq(text, LAMBDA l : l.kind = "Project")

\* line 96: the mutant drops the suffix filter
IsSupportedAny(path) == Len(path) > 0
IsSupported(path) == HasSuffix(path, Ext)

\* line 97
NormalizePath(path) == Replace(path, BS, FS)

\* lines 95-101
RECURSIVE StoreReferences(_, _)
StoreReferences(ms, guids) ==
    IF ms = <<>> THEN guids
    ELSE LET match == Head(ms) IN
         StoreReferences(Tail(ms),
            IF IsSupported(match.path)
            THEN MapPut(guids, NormalizePath(match.path), match.guid)
            ELSE guids)

parseProjectReferences ==
    /\ pc = "parse"
    /\ LET guids == StoreReferences(ProjectMatches(content), ProjectGUIDs) IN
       /\ ProjectGUIDs' = guids
       /\ IF DOMAIN guids = {}
          THEN pc' = "failed" /\ err' = "NoProjects"
          ELSE pc' = "config" /\ err' = err
    /\ UNCHANGED <<content, ConfigMappings, matches, mi, ProjectList, failing, ret>>

(***************************************************************************)
(* parseConfigurationMappings, lines 111-165.                              *)
(***************************************************************************)
\* strings.Index over lines: the first line of the kind at or after from, 0 if none
IndexFrom(text, kind, from) ==
    LET S == {i \in from..Len(text) : text[i].kind = kind} IN
    IF S = {} THEN 0 ELSE CHOOSE i \in S : \A j \in S : i <= j

\* line 113
SectionStart(text) == IndexFrom(text, "Start", 1)

\* line 118: the mutant takes the end of the text for a missing end marker
SectionEndLenient(text, start) ==
    IF IndexFrom(text, "End", start) = 0 THEN Len(text) + 1 ELSE IndexFrom(text, "End", start)
SectionEnd(text, start) == IndexFrom(text, "End", start)

\* line 127: a line the mapping regexp matches.  The suffix is ActiveCfg or
\* Build.0, \s* skips the white space after "=", and (.+?) needs one character.
RowMatches(l) ==
    /\ l.kind = "Row"
    /\ l.suffix \in {ActiveMark, BuildMark}
    /\ SkipRegexpSpace(l.rhs) # <<>>

\* the submatches of one match: match[0] .. match[3]
Submatch(l) ==
    [m0 |-> <<"{", l.guid, "}", ".">> \o l.cfg \o <<".", l.suffix, SP, "=">> \o l.rhs,
     m1 |-> l.guid,
     m2 |-> l.cfg,
     m3 |-> SkipRegexpSpace(l.rhs)]

\* lines 123-128: the matches inside content[start : start+end]
RECURSIVE SectionMatches(_)
SectionMatches(section) ==
    IF section = <<>> THEN <<>>
    ELSE IF RowMatches(Head(section))
         THEN <<Submatch(Head(section))>> \o SectionMatches(Tail(section))
         ELSE SectionMatches(Tail(section))

\* lines 139-140: the first row with the key, 0 if none
FindMapping(mappings, guid, cfg) ==
    LET S == {i \in 1..Len(mappings) :
                 mappings[i].ProjectGUID = guid /\ mappings[i].SolutionConfig = cfg} IN
    IF S = {} THEN 0 ELSE CHOOSE i \in S : \A j \in S : i <= j

NewMapping(match) ==
    [ProjectGUID |-> match.m1,
     SolutionConfig |-> match.m2,
     ProjectConfig |-> TrimSpace(match.m3),
     ShouldBuild |-> Contains(match.m0, BuildMark)]

\* mutant: every match appends a row
MergeMatchAppend(mappings, match) == Append(mappings, NewMapping(match))

\* mutant: a later row overwrites ProjectConfig
MergeMatchLastWins(mappings, match) ==
    LET i == FindMapping(mappings, match.m1, match.m2) IN
    IF i = 0 THEN Append(mappings, NewMapping(match))
    ELSE [mappings EXCEPT ![i] =
            [@ EXCEPT !.ShouldBuild = @ \/ Contains(match.m0, BuildMark),
                      !.ProjectConfig = TrimSpace(match.m3)]]

\* lines 131-160: the body of the loop over the matches
MergeMatch(mappings, match) ==
    LET projectConfig == TrimSpace(match.m3)
        shouldBuild == Contains(match.m0, BuildMark)
        i == FindMapping(mappings, match.m1, match.m2)
    IN  IF i # 0
        THEN [mappings EXCEPT ![i] =
                [@ EXCEPT !.ShouldBuild = IF shouldBuild THEN TRUE ELSE @,
                          !.ProjectConfig = IF @ = <<>> THEN projectConfig ELSE @]]
        ELSE Append(mappings, NewMapping(match))

\* lines 111-128: locate the section and collect the matches
parseConfigurationMappings ==
    /\ pc = "config"
    /\ LET start == SectionStart(content) IN
       IF start = 0
       THEN /\ pc' = "load"
            /\ UNCHANGED <<err, matches, mi>>
       ELSE LET end == SectionEnd(content, start) IN
            IF end = 0
            THEN /\ pc' = "failed"
                 /\ err' = "BadConfigSection"
                 /\ UNCHANGED <<matches, mi>>
            ELSE LET ms == SectionMatches(SubSeq(content, start, end - 1)) IN
                 /\ matches' = ms
                 /\ mi' = 1
                 /\ pc' = IF ms = <<>> THEN "load" ELSE "rows"
                 /\ err' = err
    /\ UNCHANGED <<content, ProjectGUIDs, ConfigMappings, ProjectList, failing, ret>>

\* lines 130-164: one iteration of the loop; after the last one the parser returns nil
mergeNextMatch ==
    /\ pc = "rows"
    /\ mi <= Len(matches)
    /\ ConfigMappings' = MergeMatch(ConfigMappings, matches[mi])
    /\ mi' = mi + 1
    /\ pc' = IF mi = Len(matches) THEN "load" ELSE "rows"
    /\ UNCHANGED <<content, err, ProjectGUIDs, matches, ProjectList, failing, ret>>

(***************************************************************************)
(* Solution documents.                                                     *)
(***************************************************************************)
GUIDs == {"G1", "G2"}

\* paths of project-reference lines: supported ones written with either
\* separator, one with the extension in upper case, and a solution folder
FreePaths ==
    {<<"a", Ext>>, <<"lib", BS, "a", Ext>>, <<"lib", FS, "a", Ext>>,
     <<"a", ".VCXPROJ">>, <<"Folder">>}

FreeLines ==
    {ProjectLine(p, g) : p \in FreePaths, g \in GUIDs}
    \cup {StartLine, EndLine, TextLine,
          RowLine("G1", <<"Debug|x64">>, ActiveMark, <<"Debug|Win32">>),
          RowLine("G1", <<"Debug|x64">>, "Deploy.0", <<"Debug|Win32">>)}

FreeDocs == SeqsUpTo(FreeLines, MaxLines)

\* right-hand sides of mapping rows: surrounded by white space, blank after
\* trimming, and one that spells the build marker inside the value
RowValues ==
    {<<SP, "Debug|Win32">>, <<"Release|Win32", SP>>, <<VT>>}

SectionRows ==
    {RowLine(g, <<"Debug|x64">>, s, v) : g \in GUIDs, s \in {ActiveMark, BuildMark}, v \in RowValues}
    \cup {RowLine("G1", <<"Debug|x64">>, "Deploy.0", <<"Debug|Win32">>),
          RowLine("G1", <<"Debug|x64">>, ActiveMark, <<BuildMark, "|x64">>)}

SectionDocs ==
    {<<ProjectLine(<<"a", Ext>>, "G1"), StartLine>> \o rows \o <<EndLine>> :
        rows \in SeqsUpTo(SectionRows, MaxRows)}

NoResult == [op |-> "none"]

InitModel ==
    /\ pc = "parse"
    /\ err = "nil"
    /\ ProjectGUIDs = EmptyMap
    /\ ConfigMappings = <<>>
    /\ matches = <<>>
    /\ mi = 1
    /\ ProjectList = <<>>
    /\ ret = NoResult

InitParse ==
    /\ content \in FreeDocs \cup SectionDocs
    /\ failing = {}
    /\ InitModel

NextParse ==
    \/ parseProjectReferences
    \/ parseConfigurationMappings
    \/ mergeNextMatch

SpecParse == InitParse /\ [][NextParse]_vars

(***************************************************************************)
(* The project collaborator and the sanitizers (project.go, not part of    *)
(* sln.go): modelled from their interfaces.                                *)
(***************************************************************************)
\* filepath.Dir: the path up to its last separator
Dir(path) ==
    LET S == {i \in 1..Len(path) : path[i] = FS} IN
    IF S = {} THEN <<".">> ELSE SubSeq(path, 1, (CHOOSE i \in S : \A j \in S : j <= i) - 1)

\* NewProject(path): the loaded project keeps the path it was loaded from
NewProject(path) == [ProjectPath |-> path, ProjectDir |-> Dir(path)]

\* Project.FindSourceFiles: project b has two source files, project e none,
\* the others one
FindSourceFiles(pro) ==
    IF Contains(pro.ProjectPath, "b") THEN << <<"x.cpp">>, <<"y.cpp">> >>
    ELSE IF Contains(pro.ProjectPath, "e") THEN << >>
    ELSE << <<"main.cpp">> >>

\* the include and define strings the projects hold for each configuration
ConfigNames == {<<"Debug|x64">>, <<"Release|x64">>, <<"Debug|Win32">>, <<"Release|Win32">>}
ConfigInc(conf) ==
    CASE conf = <<"Debug|x64">> -> <<"inc1", SEMI, "inc2">>
      [] conf = <<"Debug|Win32">> -> <<SolutionDirVar, "/inc", SEMI, "%(AdditionalIncludeDirectories)">>
      [] conf = <<"Release|Win32">> -> <<"inc2">>
      [] OTHER -> <<"inc3">>
ConfigDef(conf) ==
    CASE conf = <<"Debug|x64">> -> <<"FOO", SEMI, "BAR">>
      [] conf = <<"Debug|Win32">> -> <<"WIN32", SEMI, "%(PreprocessorDefinitions)", SEMI, "_DEBUG">>
      [] conf = <<"Release|Win32">> -> <<"NDEBUG">>
      [] OTHER -> <<"X64">>

\* Project.FindConfig(conf): (inc, def, err)
FindConfig(pro, conf) ==
    IF conf \in ConfigNames /\ conf \notin failing
    THEN [inc |-> ConfigInc(conf), def |-> ConfigDef(conf), err |-> "nil"]
    ELSE [inc |-> <<>>, def |-> <<>>, err |-> "NoConfig"]

\* strings.Split(s, ";")
RECURSIVE Split(_)
Split(s) ==
    LET S == {i \in 1..Len(s) : s[i] = SEMI} IN
    IF S = {} THEN <<s>>
    ELSE LET i == CHOOSE x \in S : \A y \in S : x <= y IN
         <<SubSeq(s, 1, i - 1)>> \o Split(SubSeq(s, i + 1, Len(s)))

\* strings.Join(list, ";")
RECURSIVE JoinSemi(_)
JoinSemi(list) ==
    IF list = <<>> THEN <<>>
    ELSE IF Len(list) = 1 THEN list[1]
    ELSE list[1] \o <<SEMI>> \o JoinSemi(Tail(list))

\* an entry the sanitizers drop: an unexpanded %(...) list macro
IsBadEntry(e) == e # <<>> /\ e[1] \in {"%(AdditionalIncludeDirectories)", "%(PreprocessorDefinitions)"}

RemoveBadDefinition(def) == JoinSemi(SelectSeq(Split(def), LAMBDA e : ~IsBadEntry(e)))
RemoveBadInclude(inc) == JoinSemi(SelectSeq(Split(inc), LAMBDA e : ~IsBadEntry(e)))

(***************************************************************************)
(* NewSln, lines 28-57.                                                    *)
(***************************************************************************)
\* lines 32-33: the directory of the solution document, one piece
SolutionDir == "C:/sln"

\* filepath.Clean, as far as the paths of the model need it: "." elements go
RECURSIVE Clean(_)
Clean(s) ==
    IF s = <<>> THEN <<>>
    ELSE IF Head(s) = "." /\ Len(s) >= 2 /\ s[2] = FS THEN Clean(SubSeq(s, 3, Len(s)))
    ELSE <<Head(s)>> \o Clean(Tail(s))

\* filepath.Join(dir, path)
Join(dir, path) == <<dir, FS>> \o Clean(path)

\* the orders in which a range over a map with key set S can visit the keys
Perms(S) == {o \in [1..Cardinality(S) -> S] : \A i, j \in 1..Cardinality(S) : o[i] = o[j] => i = j}

\* for each key one order that visits it first: the orders a loop that
\* breaks at its first hit can tell apart
FirstOrders(S) == {CHOOSE o \in Perms(S) : o[1] = k : k \in S}

\* lines 47-56: range over ProjectGUIDs in the order the runtime picks, load
\* each project; NewProject may fail for the project at position bad
loadProjects ==
    /\ pc = "load"
    /\ \E order \in Perms(DOMAIN ProjectGUIDs) :
       \E bad \in 0..Len(order) :
          IF bad = 0
          THEN /\ ProjectList' = [i \in 1..Len(order) |-> NewProject(Join(SolutionDir, order[i]))]
               /\ pc' = "ready"
               /\ err' = err
          ELSE /\ ProjectList' = [i \in 1..(bad - 1) |-> NewProject(Join(SolutionDir, order[i]))]
               /\ pc' = "failed"
               /\ err' = "LoadFailed"
    /\ UNCHANGED <<content, ProjectGUIDs, ConfigMappings, matches, mi, failing, ret>>

(***************************************************************************)
(* GetProjectConfig, lines 168-185.                                        *)
(***************************************************************************)
\* mutant: the row is matched by GUID alone
GetProjectConfigAnyConfig(projectPath, solutionConfig) ==
    IF projectPath \notin DOMAIN ProjectGUIDs
    THEN [val |-> <<>>, err |-> "NotFound"]
    ELSE LET S == {i \in 1..Len(ConfigMappings) :
                      ConfigMappings[i].ProjectGUID = ProjectGUIDs[projectPath]} IN
         IF S = {} THEN [val |-> solutionConfig, err |-> "nil"]
         ELSE [val |-> ConfigMappings[CHOOSE i \in S : \A j \in S : i <= j].ProjectConfig,
               err |-> "nil"]

GetProjectConfig(projectPath, solutionConfig) ==
    IF projectPath \notin DOMAIN ProjectGUIDs
    THEN [val |-> <<>>, err |-> "NotFound"]
    ELSE LET i == FindMapping(ConfigMappings, ProjectGUIDs[projectPath], solutionConfig) IN
         IF i # 0
         THEN [val |-> ConfigMappings[i].ProjectConfig, err |-> "nil"]
         ELSE [val |-> solutionConfig, err |-> "nil"]

(***************************************************************************)
(* GetProjectConfigByProject, lines 188-205.  order is the order in which  *)
(* the range over ProjectGUIDs visits the keys in this call.                *)
(***************************************************************************)
\* lines 190-198: the first key visited whose joined path is the project's
FirstMatchingPath(order, pro) ==
    LET S == {i \in 1..Len(order) : Join(SolutionDir, order[i]) = pro.ProjectPath} IN
    IF S = {} THEN <<>> ELSE order[CHOOSE i \in S : \A j \in S : i <= j]

\* mutant: the path-keyed query is asked even when no path was found
GetProjectConfigByProjectNoGuard(order, pro, solutionConfig) ==
    GetProjectConfig(FirstMatchingPath(order, pro), solutionConfig)

GetProjectConfigByProject(order, pro, solutionConfig) ==
    LET projectPath == FirstMatchingPath(order, pro) IN
    IF projectPath = <<>>
    THEN [val |-> solutionConfig, err |-> "nil"]
    ELSE GetProjectConfig(projectPath, solutionConfig)

(***************************************************************************)
(* CompileCommandsJson, lines 213-254, and preappend, lines 256-265.       *)
(***************************************************************************)
\* lines 260-263
RECURSIVE PreappendList(_, _)
PreappendList(defList, append) ==
    IF defList = <<>> THEN <<>>
    ELSE <<append>> \o Head(defList) \o <<SP>> \o PreappendList(Tail(defList), append)

preappend(sepedString, append) == PreappendList(Split(sepedString), append)

\* lines 234-246: the command of one source file
Command(inc, def, f) ==
    LET inc1 == Replace(inc, SolutionDirVar, SolutionDir)
        def2 == preappend(RemoveBadDefinition(def), "-D")
        inc2 == preappend(RemoveBadInclude(inc1), "-I")
    IN  <<"clang-cl.exe", SP>> \o def2 \o <<SP>> \o inc2 \o <<SP, "-c", SP>> \o f

\* line 231: the mutant carries on after a failed FindConfig
ConfigFailedIgnored(r) == FALSE
ConfigFailed(r) == r.err # "nil"

\* lines 226-250: the loop over the source files of one project
RECURSIVE FileLoop(_, _, _, _)
FileLoop(pro, projectConfig, files, cmdList) ==
    IF files = <<>> THEN [cmds |-> cmdList, err |-> "nil"]
    ELSE LET f == Head(files)
             r == FindConfig(pro, projectConfig)
         IN  IF ConfigFailed(r)
             THEN [cmds |-> cmdList, err |-> r.err]
             ELSE FileLoop(pro, projectConfig, Tail(files),
                     Append(cmdList, [Dir |-> pro.ProjectDir, File |-> f,
                                      Cmd |-> Command(r.inc, r.def, f)]))

\* lines 216-253: the loop over ProjectList from project i on
RECURSIVE ProjectLoop(_, _, _, _)
ProjectLoop(orders, conf, i, cmdList) ==
    IF i > Len(ProjectList) THEN [cmds |-> cmdList, err |-> "nil"]
    ELSE LET pro == ProjectList[i]
             q == GetProjectConfigByProject(orders[i], pro, conf)
             projectConfig == IF q.err # "nil" THEN conf ELSE q.val
             r == FileLoop(pro, projectConfig, FindSourceFiles(pro), cmdList)
         IN  IF r.err # "nil" THEN r ELSE ProjectLoop(orders, conf, i + 1, r.cmds)

(***************************************************************************)
(* Calls on the constructed model.                                         *)
(***************************************************************************)
ReqConfigs == {<<"Debug|x64">>, <<"Release|x64">>}
UnregisteredPath == <<"other", Ext>>
QueryPaths == (DOMAIN ProjectGUIDs) \cup {UnregisteredPath}
QueryProjects == Range(ProjectList) \cup {NewProject(Join(SolutionDir, UnregisteredPath))}

callGetProjectConfig ==
    /\ pc = "ready"
    /\ \E projectPath \in QueryPaths, solutionConfig \in ReqConfigs :
          ret' = [op |-> "GetProjectConfig", path |-> projectPath, conf |-> solutionConfig,
                  res |-> GetProjectConfig(projectPath, solutionConfig)]
    /\ UNCHANGED <<content, pc, err, ProjectGUIDs, ConfigMappings, matches, mi,
                   ProjectList, failing>>

callGetProjectConfigByProject ==
    /\ pc = "ready"
    /\ \E pro \in QueryProjects, solutionConfig \in ReqConfigs,
          order \in FirstOrders(DOMAIN ProjectGUIDs) :
          ret' = [op |-> "GetProjectConfigByProject", path |-> pro.ProjectPath,
                  conf |-> solutionConfig,
                  res |-> GetProjectConfigByProject(order, pro, solutionConfig)]
    /\ UNCHANGED <<content, pc, err, ProjectGUIDs, ConfigMappings, matches, mi,
                   ProjectList, failing>>

callCompileCommandsJson ==
    /\ pc = "ready"
    /\ \E conf \in ReqConfigs,
          orders \in [1..Len(ProjectList) -> FirstOrders(DOMAIN ProjectGUIDs)] :
          LET r == ProjectLoop(orders, conf, 1, <<>>) IN
          ret' = [op |-> "CompileCommandsJson", conf |-> conf, cmds |-> r.cmds, err |-> r.err]
    /\ UNCHANGED <<content, pc, err, ProjectGUIDs, ConfigMappings, matches, mi,
                   ProjectList, failing>>

\* documents handed to generation: references to project a under two
\* spellings of its path, to project b and to the empty project e, and a
\* closed section whose rows map Debug|x64 for either GUID
GenRefs ==
    {ProjectLine(<<"a", Ext>>, "G1"), ProjectLine(<<".", BS, "a", Ext>>, "G2"),
     ProjectLine(<<"b", Ext>>, "G1"), ProjectLine(<<"b", Ext>>, "G2"),
     ProjectLine(<<"e", Ext>>, "G1")}
GenRows ==
    {<<>>,
     <<RowLine("G1", <<"Debug|x64">>, ActiveMark, <<"Debug|Win32">>)>>,
     <<RowLine("G2", <<"Debug|x64">>, BuildMark, <<"Release|Win32">>)>>,
     <<RowLine("G1", <<"Debug|x64">>, ActiveMark, <<"Debug|Win32">>),
       RowLine("G2", <<"Debug|x64">>, BuildMark, <<"Release|Win32">>)>>}
GenDocs ==
    {refs \o <<StartLine>> \o rows \o <<EndLine>> :
        refs \in SeqsUpTo(GenRefs, MaxRefs), rows \in GenRows}

Init ==
    /\ content \in GenDocs
    /\ failing \in {{}, {<<"Debug|Win32">>}, {<<"Debug|x64">>}}
    /\ InitModel

Next ==
    \/ parseProjectReferences
    \/ parseConfigurationMappings
    \/ mergeNextMatch
    \/ loadProjects
    \/ callGetProjectConfig
    \/ callGetProjectConfigByProject
    \/ callCompileCommandsJson

Spec == Init /\ [][Next]_vars

\* the construction followed by configuration queries only
NextQuery ==
    \/ parseProjectReferences
    \/ parseConfigurationMappings
    \/ mergeNextMatch
    \/ loadProjects
    \/ callGetProjectConfig
    \/ callGetProjectConfigByProject

SpecQuery == Init /\ [][NextQuery]_vars

\* the construction followed by command generation only
NextGen ==
    \/ parseProjectReferences
    \/ parseConfigurationMappings
    \/ mergeNextMatch
    \/ loadProjects
    \/ callCompileCommandsJson

SpecGen == Init /\ [][NextGen]_vars

(***************************************************************************)
(* Properties of the parsers.                                              *)
(***************************************************************************)
Key(r) == <<r.ProjectGUID, r.SolutionConfig>>
MatchKey(m) == <<m.m1, m.m2>>
Processed == SubSeq(matches, 1, mi - 1)
RowsOf(k) == {i \in 1..Len(ConfigMappings) : Key(ConfigMappings[i]) = k}
MatchesOf(k) == {i \in 1..Len(Processed) : MatchKey(Processed[i]) = k}
IsBuildRow(m) == m.m0[Len(m.m2) + 6] = "Build.0"
Trimmed(m) == TrimSpace(m.m3)

\* C1: after every row insertion the mapping table holds at most one row per
\* (ProjectGUID, SolutionConfig) pair, and exactly one for every key processed.
C1_OneRowPerKey ==
    /\ \A i, j \in 1..Len(ConfigMappings) :
          Key(ConfigMappings[i]) = Key(ConfigMappings[j]) => i = j
    /\ \A i \in 1..Len(Processed) : Cardinality(RowsOf(MatchKey(Processed[i]))) = 1

\* a key was processed three times, by rows of both kinds, and has been merged
C1_Witness ==
    /\ pc = "load"
    /\ Len(ConfigMappings) = 1
    /\ Len(matches) = 3
    /\ \E i, j \in 1..3 : IsBuildRow(matches[i]) /\ ~IsBuildRow(matches[j])

\* C2 as claimed: the row of a key holds the trimmed value of the first row
\* processed for the key, and ShouldBuild when some row of the key is a
\* Build.0 row.
C2_FirstRowWins ==
    \A k \in {MatchKey(Processed[i]) : i \in 1..Len(Processed)} :
        \A r \in RowsOf(k) :
            LET first == CHOOSE i \in MatchesOf(k) : \A j \in MatchesOf(k) : i <= j IN
            /\ ConfigMappings[r].ProjectConfig = Trimmed(Processed[first])
            /\ (\E i \in MatchesOf(k) : IsBuildRow(Processed[i])) => ConfigMappings[r].ShouldBuild

\* C2 amended: the row of a key holds the trimmed value of the first row of
\* the key whose trimmed value is not empty (the empty string when there is
\* none), and ShouldBuild when some row of the key is a Build.0 row.
C2_FirstNonEmptyWins ==
    \A k \in {MatchKey(Processed[i]) : i \in 1..Len(Processed)} :
        \A r \in RowsOf(k) :
            LET full == {i \in MatchesOf(k) : Trimmed(Processed[i]) # <<>>} IN
            /\ ConfigMappings[r].ProjectConfig =
                  IF full = {} THEN <<>>
                  ELSE Trimmed(Processed[CHOOSE i \in full : \A j \in full : i <= j])
            /\ (\E i \in MatchesOf(k) : IsBuildRow(Processed[i])) => ConfigMappings[r].ShouldBuild

\* an ActiveCfg row and a Build.0 row of one key with different values, then
\* the same key again: the first value stays and the row is built
C2_Witness ==
    /\ pc = "load"
    /\ Len(matches) = 3
    /\ Len(ConfigMappings) = 1
    /\ ~IsBuildRow(matches[1]) /\ IsBuildRow(matches[2])
    /\ Trimmed(matches[1]) = <<"Debug|Win32">>
    /\ Trimmed(matches[2]) = <<"Release|Win32">>
    /\ ConfigMappings[1].ProjectConfig = <<"Debug|Win32">>
    /\ ConfigMappings[1].ShouldBuild

SupportedLines(doc) ==
    {i \in 1..Len(doc) :
        /\ doc[i].kind = "Project"
        /\ Len(doc[i].path) > 0
        /\ doc[i].path[Len(doc[i].path)] = ".vcxproj"}
Slashed(p) == [i \in 1..Len(p) |-> IF p[i] = "\\" THEN "/" ELSE p[i]]
FirstStart(doc) ==
    {i \in 1..Len(doc) : doc[i].kind = "Start" /\ \A j \in 1..(i - 1) : doc[j].kind # "Start"}
Unclosed(doc) ==
    \E i \in FirstStart(doc) : \A j \in (i + 1)..Len(doc) : doc[j].kind # "End"

\* C5: parsing fails exactly when the document has no supported reference or
\* its configuration section is opened and never closed; a document with a
\* supported reference and no start marker yields an empty table.
C5_FailsExactlyWhen ==
    /\ pc = "failed" => err # "nil" /\ (SupportedLines(content) = {} \/ Unclosed(content))
    /\ pc = "load" => err = "nil" /\ SupportedLines(content) # {} /\ ~Unclosed(content)
    /\ pc = "load" /\ FirstStart(content) = {} => ConfigMappings = <<>>
    /\ pc \in {"config", "rows"} => SupportedLines(content) # {}
    /\ pc = "rows" => ~Unclosed(content)

\* a supported reference, then an end marker that precedes the start marker
C5_Witness ==
    /\ pc = "failed"
    /\ err = "BadConfigSection"
    /\ \E i \in 1..Len(content) : content[i].kind = "End"

\* C6 as claimed: the table has as many entries as the document has lines
\* with a supported path.
C6_OneEntryPerLine ==
    pc # "parse" => Cardinality(DOMAIN ProjectGUIDs) = Cardinality(SupportedLines(content))

\* C6 amended: the table has one entry per distinct normalized path of the
\* supported lines, holding the GUID of the last line of that path; so as
\* many entries as lines when the normalized paths differ pairwise.
C6_OneEntryPerPath ==
    pc # "parse" =>
        LET S == SupportedLines(content) IN
        /\ DOMAIN ProjectGUIDs = {Slashed(content[i].path) : i \in S}
        /\ \A p \in DOMAIN ProjectGUIDs : "\\" \notin Range(p)
        /\ \A i \in S :
              (\A j \in S : j > i => Slashed(content[j].path) # Slashed(content[i].path))
                 => ProjectGUIDs[Slashed(content[i].path)] = content[i].guid
        /\ (\A i, j \in S : Slashed(content[i].path) = Slashed(content[j].path) => i = j)
              => Cardinality(DOMAIN ProjectGUIDs) = Cardinality(S)

\* two supported lines, one written with a backslash, and one unsupported line
C6_Witness ==
    /\ pc = "load"
    /\ Cardinality(SupportedLines(content)) = 2
    /\ Cardinality(DOMAIN ProjectGUIDs) = 2
    /\ \E i \in SupportedLines(content) : "\\" \in Range(content[i].path)
    /\ \E i \in 1..Len(content) : content[i].kind = "Project" /\ i \notin SupportedLines(content)

(***************************************************************************)
(* Properties of the queries and of the generator.                         *)
(***************************************************************************)
\* the registered paths whose joined path is the absolute path abs
Candidates(abs) == {p \in DOMAIN ProjectGUIDs : Join(SolutionDir, p) = abs}

\* C3: GetProjectConfig fails for an unregistered path; otherwise it returns
\* the ProjectConfig of the row of (ProjectGUIDs[path], solutionConfig) when
\* there is one, and solutionConfig unchanged when there is none.
C3_GetProjectConfig ==
    ret.op = "GetProjectConfig" =>
        IF ret.path \notin DOMAIN ProjectGUIDs
        THEN ret.res.err = "NotFound"
        ELSE LET rows == {i \in 1..Len(ConfigMappings) :
                            /\ ConfigMappings[i].ProjectGUID = ProjectGUIDs[ret.path]
                            /\ ConfigMappings[i].SolutionConfig = ret.conf} IN
             /\ ret.res.err = "nil"
             /\ \A i \in rows : ret.res.val = ConfigMappings[i].ProjectConfig
             /\ rows = {} => ret.res.val = ret.conf

\* a registered path whose GUID has rows, asked for a configuration none of
\* them maps: the identity fallback
C3_Witness ==
    /\ ret.op = "GetProjectConfig"
    /\ ret.path \in DOMAIN ProjectGUIDs
    /\ \E i \in 1..Len(ConfigMappings) : ConfigMappings[i].ProjectGUID = ProjectGUIDs[ret.path]
    /\ ret.conf = <<"Release|x64">>
    /\ ret.res = [val |-> <<"Release|x64">>, err |-> "nil"]

\* C4: GetProjectConfigByProject never returns an error; it returns
\* solutionConfig when no registered path joins to the project's path, and
\* what GetProjectConfig returns for a registered path that does otherwise.
C4_ByProjectNeverFails ==
    ret.op = "GetProjectConfigByProject" =>
        /\ ret.res.err = "nil"
        /\ Candidates(ret.path) = {} => ret.res.val = ret.conf
        /\ Candidates(ret.path) # {} =>
              \E p \in Candidates(ret.path) : ret.res = GetProjectConfig(p, ret.conf)

\* a project of another solution: no registered path joins to its path
C4_Witness ==
    /\ ret.op = "GetProjectConfigByProject"
    /\ Candidates(ret.path) = {}
    /\ ret.res = [val |-> ret.conf, err |-> "nil"]

\* C7: a call of CompileCommandsJson that follows a call for the same
\* configuration on the unmodified model returns the same output.
C7_Idempotent ==
    [][(/\ ret.op = "CompileCommandsJson"
        /\ ret'.op = "CompileCommandsJson"
        /\ ret'.conf = ret.conf) => ret' = ret]_vars

\* the distinct elements of a sequence, in the order of their first occurrence
RECURSIVE FirstSeen(_, _)
FirstSeen(s, seen) ==
    IF s = <<>> THEN <<>>
    ELSE IF Head(s) \in seen THEN FirstSeen(Tail(s), seen)
    ELSE <<Head(s)>> \o FirstSeen(Tail(s), seen \cup {Head(s)})

DocumentOrder ==
    LET refs == SelectSeq(content, LAMBDA l : l.kind = "Project" /\ HasSuffix(l.path, Ext)) IN
    FirstSeen([i \in 1..Len(refs) |-> Slashed(refs[i].path)], {})

\* C8: NewSln builds ProjectList in the order in which the references were
\* first encountered in the document.
C8_DocumentOrder ==
    pc = "ready" =>
        ProjectList = [i \in 1..Len(DocumentOrder) |->
                          NewProject(Join(SolutionDir, DocumentOrder[i]))]

\* the configurations GetProjectConfigByProject can resolve for project i
Resolved(i, conf) ==
    IF Candidates(ProjectList[i].ProjectPath) = {} THEN {conf}
    ELSE {GetProjectConfig(p, conf).val : p \in Candidates(ProjectList[i].ProjectPath)}

Fails(c) == c \in failing \/ c \notin ConfigNames

\* the source files of the projects before project k, in order
RECURSIVE FilesBefore(_)
FilesBefore(k) ==
    IF k <= 1 THEN <<>> ELSE FilesBefore(k - 1) \o FindSourceFiles(ProjectList[k - 1])

HasFiles(i) == FindSourceFiles(ProjectList[i]) # <<>>

\* C9: when FindConfig fails for the resolved configuration of a project
\* that has a source file, CompileCommandsJson returns the error with the
\* entries of the projects before it and nothing else; it never carries on
\* past the failure.
C9_ConfigFailureAborts ==
    ret.op = "CompileCommandsJson" =>
        LET n == Len(ProjectList)
            files == [i \in 1..Len(ret.cmds) |-> ret.cmds[i].File]
        IN  IF ret.err = "nil"
            THEN /\ files = FilesBefore(n + 1)
                 /\ \A i \in 1..n : HasFiles(i) => \E c \in Resolved(i, ret.conf) : ~Fails(c)
            ELSE \E k \in 1..n :
                    /\ ret.err = "NoConfig"
                    /\ HasFiles(k)
                    /\ files = FilesBefore(k)
                    /\ \E c \in Resolved(k, ret.conf) : Fails(c)
                    /\ \A i \in 1..(k - 1) :
                          HasFiles(i) => \E c \in Resolved(i, ret.conf) : ~Fails(c)

\* the failure comes at the second project, after the entries of the first
C9_Witness ==
    /\ ret.op = "CompileCommandsJson"
    /\ ret.err # "nil"
    /\ Len(ret.cmds) > 0
    /\ Len(ProjectList) = 2

\* a string of pieces as one string
RECURSIVE Flat(_)
Flat(s) == IF s = <<>> THEN "" ELSE Head(s) \o Flat(Tail(s))

\* the tokens joined by exactly one space
RECURSIVE SingleSpaced(_)
SingleSpaced(tokens) ==
    IF tokens = <<>> THEN ""
    ELSE IF Len(tokens) = 1 THEN tokens[1]
    ELSE tokens[1] \o " " \o SingleSpaced(Tail(tokens))

\* the command claimed for file f under the lists of configuration c
ClaimedCommand(c, f) ==
    LET defs == Split(RemoveBadDefinition(ConfigDef(c)))
        incs == Split(RemoveBadInclude(Replace(ConfigInc(c), SolutionDirVar, SolutionDir)))
    IN  SingleSpaced(<<"clang-cl.exe">>
                     \o [i \in 1..Len(defs) |-> "-D" \o Flat(defs[i])]
                     \o [i \in 1..Len(incs) |-> "-I" \o Flat(incs[i])]
                     \o <<"-c", Flat(f)>>)

\* C10: the command of every entry is clang-cl.exe, the -D flags, the -I
\* flags, -c and the file, with exactly one space between consecutive tokens.
C10_SingleSpaces ==
    ret.op = "CompileCommandsJson" =>
        \A i \in 1..Len(ret.cmds) :
            \E c \in ConfigNames : Flat(ret.cmds[i].Cmd) = ClaimedCommand(c, ret.cmds[i].File)

====
